---- MODULE Spec2Model ----
(***************************************************************************)
(* A model of json2yaml.py: main() loads a Three.JS JSON scene, converts   *)
(* it with convert_json_to_yaml() and writes the YAML text to scene.yaml.  *)
(*                                                                         *)
(* Number representation.  Python floats are modelled by integers with a   *)
(* fixed unit per field:                                                   *)
(*   - entries of a node's "matrix" (and everything copied out of it:      *)
(*     center, position, lookFrom, lookAt) count units of 10^-8;           *)
(*   - angles (roll, pitch) count micro-degrees (10^-6 degree);            *)
(*   - albedo channels count units of 1/255 (255 is 1.0);                  *)
(*   - radius, width, height, depth, fov, focus, intensity are plain       *)
(*     numbers.                                                            *)
(* Python's 0-based indexes and half-open slices are kept in the operator  *)
(* arguments and shifted by one inside PySlice / the matrix accessors.     *)
(***************************************************************************)
EXTENDS Integers, Sequences, FiniteSets, TLC

VARIABLES
    doc,        \* the content of scene.json (the input, never modified)
    pc,         \* position of main(): start, check, index, loop, converted, done, raised
    json_dict,  \* main's json_dict, the argument of convert_json_to_yaml
    geometries, \* the geometry index (uuid -> record)
    materials,  \* the material index (uuid -> record)
    i,          \* 1-based position of the for loop over objs (0 before the loop)
    yaml_dict,  \* the output scene under construction
    branch,     \* which branch of the plane classification the last Plane node took (0: none)
    error,      \* the exception that ended the run, if any
    yaml_str,   \* the value returned by convert_json_to_yaml
    file        \* scene.yaml: the sequence of texts written to it

vars == <<doc, pc, json_dict, geometries, materials, i, yaml_dict, branch, error, yaml_str, file>>

(***************************************************************************)
(* Bounds of the model.                                                    *)
(***************************************************************************)
MaxChildren == 3

(***************************************************************************)
(* Python helpers.                                                         *)
(***************************************************************************)
Min(a, b) == IF a <= b THEN a ELSE b

\* s[a:b] for 0 <= a <= b
PySlice(s, a, b) == SubSeq(s, a + 1, Min(b, Len(s)))

\* One unit of a matrix entry: 1.0 is 10^8.
Unit == 10^8

Unset == [unset |-> TRUE]
NoError == [kind |-> "none", msg |-> ""]
KeyError == [kind |-> "KeyError", msg |-> "key"]
ValueError(m) == [kind |-> "ValueError", msg |-> m]

Raise(e) == [tag |-> "raise", error |-> e]

(***************************************************************************)
(* Line 17: the root check.                                                *)
(***************************************************************************)
IsSceneTypeUnchecked(d) ==
    ~ ("object" \notin DOMAIN d)

IsScene(d) ==
    ~ (\/ "object" \notin DOMAIN d
       \/ "type" \notin DOMAIN d.object
       \/ d.object.type # "Scene")

(***************************************************************************)
(* Lines 21-42: the defaults.  Floats that no code path computes with are  *)
(* kept as their literals.                                                 *)
(***************************************************************************)
DefaultConstants ==
    [width |-> 800, height |-> 800, samplesPerPixel |-> 32, maxDepth |-> 5000,
     minDepth |-> 5, environmentIntensity |-> "0.25",
     sourcesLambda |-> "0.122364268571", powerRenderCenter |-> <<0, 0, 0>>]

DefaultCamera ==
    [lookFrom |-> <<0, 0, 0>>, lookAt |-> <<0, 0, 0>>, vup |-> <<0, Unit, 0>>,
     vfov |-> 90, aspectRatio |-> "1.0", aperture |-> "0.1", focusDistance |-> 10]

DefaultYaml ==
    [constants |-> DefaultConstants, camera |-> DefaultCamera, world |-> << >>]

(***************************************************************************)
(* Lines 43-50: the index of a list of records by uuid; a later record     *)
(* with the same uuid replaces an earlier one.                             *)
(***************************************************************************)
LastWith(arr, id) ==
    CHOOSE k \in 1..Len(arr) :
        /\ arr[k].uuid = id
        /\ \A j \in (k + 1)..Len(arr) : arr[j].uuid # id

BuildIndex(arr) ==
    [id \in {arr[k].uuid : k \in 1..Len(arr)} |-> arr[LastWith(arr, id)]]

(***************************************************************************)
(* geometries[obj["geometry"]][field]: <<value>>, or << >> for a KeyError  *)
(* (no "geometry" key in the node, no such uuid, no such field).           *)
(***************************************************************************)
GeoFieldDefaulting(geos, obj, field) ==
    IF /\ "geometry" \in DOMAIN obj
       /\ obj.geometry \in DOMAIN geos
       /\ field \in DOMAIN geos[obj.geometry]
    THEN <<geos[obj.geometry][field]>>
    ELSE <<1>>

GeoField(geos, obj, field) ==
    IF /\ "geometry" \in DOMAIN obj
       /\ obj.geometry \in DOMAIN geos
       /\ field \in DOMAIN geos[obj.geometry]
    THEN <<geos[obj.geometry][field]>>
    ELSE << >>

(***************************************************************************)
(* Lines 66-67: math.acos(x) * 57.2958 in micro-degrees, tabulated from    *)
(* the floating-point results for the matrix entries the model draws       *)
(* (x in units of 10^-8).  Outside [-1, 1] math.acos raises ValueError.    *)
(***************************************************************************)
InAcosDomain(x) == -Unit <= x /\ x <= Unit

AcosDeg(x) ==
    CASE x = 100000000  -> 0
      [] x = 99999999   -> 8102
      [] x = 99999998   -> 11459
      [] x = 70710678   -> 45000016
      [] x = 50000000   -> 60000021
      [] x = 17000      -> 89990291
      [] x = 0          -> 90000032
      [] x = -8000      -> 90004615
      [] x = -35000     -> 90020085
      [] x = -70710678  -> 135000048
      [] x = -99999999  -> 179991961
      [] x = -100000000 -> 180000064

\* (math.acos(x) * 57.2958) % 180.0
Angle(x) == AcosDeg(x) % (180 * 10^6)

\* Line 65: np.array(obj["matrix"]).reshape(4, 4) raises ValueError unless the
\* flat matrix has 4 * 4 entries.
Reshapes(matrix) == Len(matrix) = 4 * 4

ReshapeError(matrix) ==
    ValueError("cannot reshape array of size " \o ToString(Len(matrix))
               \o " into shape (4,4)")

\* matrix4x4[1][1] and matrix4x4[0][0] of the reshaped flat matrix
M11(obj) == obj.matrix[(1 * 4 + 1) + 1]
M00(obj) == obj.matrix[(0 * 4 + 0) + 1]

Roll(obj) == Angle(M11(obj))
Pitch(obj) == Angle(M00(obj))

\* 0.01 and 90.0 degrees
Tol == 10^4
Ninety == 90 * 10^6

(***************************************************************************)
(* Lines 68-79: the if/elif chain; the number of the branch taken, 5 for   *)
(* the else branch that raises.                                            *)
(***************************************************************************)
PlaneBranchAbs(roll, pitch) ==
    LET Abs(v) == IF v < 0 THEN -v ELSE v IN
    IF roll <= Tol /\ pitch <= Tol THEN 1
    ELSE IF Abs(roll - Ninety) <= Tol /\ pitch <= Tol THEN 2
    ELSE IF roll <= Tol /\ Abs(pitch - Ninety) <= Tol THEN 3
    ELSE IF Abs(roll - Ninety) <= Tol /\ Abs(pitch - Ninety) <= Tol THEN 4
    ELSE 5

PlaneBranch(roll, pitch) ==
    IF roll <= Tol /\ pitch <= Tol THEN 1
    ELSE IF roll - Ninety <= Tol /\ pitch <= Tol THEN 2
    ELSE IF roll <= Tol /\ pitch - Ninety <= Tol THEN 3
    ELSE IF roll - Ninety <= Tol /\ pitch - Ninety <= Tol THEN 4
    ELSE 5

RectType(b) ==
    CASE b = 1 -> "XYRectangle"
      [] b = 2 -> "XZRectangle"
      [] b = 3 -> "YZRectangle"
      [] b = 4 -> "YZRectangle"

(***************************************************************************)
(* Lines 113-115: hex(color)[2:] as its sequence of digit values, cut into *)
(* the slices hex_color[i:i + len // 3] for i in range(0, len, len // 3),  *)
(* each read back in base 16.                                              *)
(***************************************************************************)
RECURSIVE HexDigits(_)
HexDigits(n) ==
    IF n < 16 THEN <<n>> ELSE Append(HexDigits(n \div 16), n % 16)

RECURSIVE Base16(_)
Base16(ds) ==
    IF Len(ds) = 0 THEN 0
    ELSE 16 * Base16(SubSeq(ds, 1, Len(ds) - 1)) + ds[Len(ds)]

HexStep(h) == Len(h) \div 3

\* defined for HexStep(h) > 0; range(0, len, 0) raises ValueError
RgbColor(h) ==
    LET step == HexStep(h)
        n == (Len(h) + step - 1) \div step
    IN [k \in 1..n |-> Base16(PySlice(h, (k - 1) * step, (k - 1) * step + step))]

(***************************************************************************)
(* Lines 54-57, 58-79, 80-85: the shape nodes, before their material.      *)
(***************************************************************************)
Ok(o) == [tag |-> "obj", obj |-> o]

Sphere(obj, geos) ==
    LET radius == GeoField(geos, obj, "radius") IN
    IF radius = << >> THEN Raise(KeyError)
    ELSE Ok([objType |-> "Sphere", center |-> PySlice(obj.matrix, 12, 15),
             radius |-> radius[1]])

Plane(obj, geos) ==
    LET width == GeoField(geos, obj, "width")
        height == GeoField(geos, obj, "height")
    IN
    IF width = << >> \/ height = << >> THEN Raise(KeyError) @@ [branch |-> 0]
    ELSE IF ~ Reshapes(obj.matrix) THEN Raise(ReshapeError(obj.matrix)) @@ [branch |-> 0]
    ELSE IF ~ InAcosDomain(M11(obj)) \/ ~ InAcosDomain(M00(obj))
    THEN Raise(ValueError("math domain error")) @@ [branch |-> 0]
    ELSE LET b == PlaneBranch(Roll(obj), Pitch(obj)) IN
         IF b = 5
         THEN Raise(ValueError("Plane has an invalid rotation.")) @@ [branch |-> b]
         ELSE Ok([objType |-> RectType(b), position |-> PySlice(obj.matrix, 12, 15),
                  width |-> width[1], height |-> height[1]]) @@ [branch |-> b]

Box(obj, geos) ==
    LET width == GeoField(geos, obj, "width")
        height == GeoField(geos, obj, "height")
        depth == GeoField(geos, obj, "depth")
    IN
    IF width = << >> \/ height = << >> \/ depth = << >> THEN Raise(KeyError)
    ELSE Ok([objType |-> "Box", position |-> PySlice(obj.matrix, 12, 15),
             width |-> width[1], height |-> height[1], depth |-> depth[1]])

(***************************************************************************)
(* Lines 86-95: a camera node overwrites four fields of the camera block.  *)
(***************************************************************************)
PerspectiveCameraFirstWins(camera, obj) ==
    IF camera # DefaultCamera THEN camera
    ELSE [camera EXCEPT !.lookFrom = PySlice(obj.matrix, 12, 15),
                        !.lookAt = PySlice(obj.matrix, 8, 11),
                        !.vfov = obj.fov,
                        !.focusDistance = obj.focus]

PerspectiveCamera(camera, obj) ==
    [camera EXCEPT !.lookFrom = PySlice(obj.matrix, 12, 15),
                   !.lookAt = PySlice(obj.matrix, 8, 11),
                   !.vfov = obj.fov,
                   !.focusDistance = obj.focus]

(***************************************************************************)
(* Lines 96-107: a point light becomes a unit sphere with its own          *)
(* emissive material.                                                      *)
(***************************************************************************)
PointLightNoMaterial(obj) ==
    Ok([objType |-> "Sphere", center |-> PySlice(obj.matrix, 12, 15), radius |-> 1])

PointLight(obj) ==
    Ok([objType |-> "Sphere", center |-> PySlice(obj.matrix, 12, 15), radius |-> 1,
        material |-> [matType |-> "DiffuseLight", texType |-> "SolidColor",
                      texture |-> [albedo |-> <<255, 255, 255>>],
                      intensity |-> obj.intensity * 10]])

(***************************************************************************)
(* Lines 53-108: the dispatch on obj["name"].                              *)
(***************************************************************************)
Shape(obj, geos) ==
    CASE obj.name = "Sphere" -> Sphere(obj, geos)
      [] obj.name = "Plane" -> Plane(obj, geos)
      [] obj.name = "Box" -> Box(obj, geos)
      [] obj.name = "PointLight" -> PointLight(obj)
      [] OTHER -> Raise(ValueError("Unknown object type."))

(***************************************************************************)
(* Lines 109-121: the material of an object that has none yet.             *)
(***************************************************************************)
Lambertian(rgbcolor) ==
    [matType |-> "Lambertian", texType |-> "SolidColor",
     texture |-> [albedo |-> rgbcolor]]

WithMaterial(new_obj, obj, mats) ==
    IF "material" \in DOMAIN new_obj THEN Ok(new_obj)
    ELSE IF \/ "material" \notin DOMAIN obj
            \/ obj.material \notin DOMAIN mats
            \/ "color" \notin DOMAIN mats[obj.material]
    THEN Raise(KeyError)
    ELSE LET hex_color == HexDigits(mats[obj.material].color) IN
         IF HexStep(hex_color) = 0
         THEN Raise(ValueError("range() arg 3 must not be zero"))
         ELSE Ok(new_obj @@ [material |-> Lambertian(RgbColor(hex_color))])

(***************************************************************************)
(* Lines 53-122: one iteration of the loop, as the object to append, the   *)
(* camera to store, or the exception raised.                               *)
(***************************************************************************)
Node(obj, geos, mats, camera) ==
    IF obj.name = "PerspectiveCamera"
    THEN [tag |-> "camera", camera |-> PerspectiveCamera(camera, obj)]
    ELSE LET s == Shape(obj, geos) IN
         IF s.tag = "raise" THEN s
         ELSE WithMaterial(s.obj, obj, mats)
              @@ (IF "branch" \in DOMAIN s THEN [branch |-> s.branch] ELSE << >>)

\* yaml_dict["world"].append(new_obj)
EmitFront(world, new_obj) == <<new_obj>> \o world

Emit(world, new_obj) == Append(world, new_obj)

(***************************************************************************)
(* Line 124: yaml.dump of the output scene: the top-level mapping is       *)
(* written key by key in sorted key order, sequences keep their order.     *)
(***************************************************************************)
Dump(y) ==
    <<[key |-> "camera", value |-> y.camera],
      [key |-> "constants", value |-> y.constants],
      [key |-> "world", value |-> y.world]>>

(***************************************************************************)
(* The input documents the model draws.                                    *)
(***************************************************************************)
\* A flat 16-entry matrix with the given [0][0] and [1][1] entries, entries
\* 8..10 (look) and entries 12..14 (pos).
Matrix(m00, m11, look, pos) ==
    <<m00, 0, 0, 0,
      0, m11, 0, 0,
      look[1], look[2], look[3], 0,
      pos[1], pos[2], pos[3], Unit>>

\* the first n entries of a matrix, zeros beyond its last
Resized(matrix, n) == [k \in 1..n |-> IF k <= Len(matrix) THEN matrix[k] ELSE 0]

Pos(k) == <<k * 10^7, -k * 10^7, k * 10^6>>
Identity(k) == Matrix(Unit, Unit, <<0, 0, Unit>>, Pos(k))

GeoArr ==
    <<[uuid |-> "geo-sphere", type |-> "SphereGeometry", radius |-> 2],
      [uuid |-> "geo-plane", type |-> "PlaneGeometry", width |-> 3, height |-> 4],
      [uuid |-> "geo-box", type |-> "BoxGeometry", width |-> 5, height |-> 6, depth |-> 7]>>

MatArr ==
    <<[uuid |-> "mat-white", type |-> "MeshStandardMaterial", color |-> 16777215],
      [uuid |-> "mat-red", type |-> "MeshStandardMaterial", color |-> 16711680]>>

Mesh(name, k, geo, mat) ==
    [name |-> name, type |-> "Mesh", matrix |-> Identity(k), geometry |-> geo, material |-> mat]

Camera(k, look, fov, focus) ==
    [name |-> "PerspectiveCamera", type |-> "PerspectiveCamera",
     matrix |-> Matrix(Unit, Unit, look, Pos(k)), fov |-> fov, focus |-> focus]

Light(k, intensity) ==
    [name |-> "PointLight", type |-> "PointLight", matrix |-> Identity(k),
     intensity |-> intensity]

NodePool ==
    { Mesh("Sphere", 1, "geo-sphere", "mat-white"),
      Mesh("Sphere", 2, "geo-missing", "mat-white"),
      Mesh("Sphere", 3, "geo-plane", "mat-red"),
      Mesh("Box", 4, "geo-box", "mat-red"),
      Mesh("Box", 5, "geo-box", "mat-missing"),
      Mesh("Plane", 6, "geo-plane", "mat-white"),
      [Mesh("Plane", 7, "geo-plane", "mat-missing")
           EXCEPT !.matrix = Matrix(Unit, -70710678, <<0, 0, Unit>>, Pos(7))],
      [Mesh("Plane", 14, "geo-plane", "mat-missing")
           EXCEPT !.matrix = Resized(Identity(14), 15)],
      Camera(8, <<0, 0, -Unit>>, 50, 10),
      Camera(9, <<Unit, 0, 0>>, 35, 20),
      Light(10, 1),
      Light(11, 2) @@ [material |-> "mat-missing"],
      Light(12, 3) @@ [material |-> "mat-red", geometry |-> "geo-missing"],
      [name |-> "AmbientLight", type |-> "AmbientLight", matrix |-> Identity(13),
       intensity |-> 1] }

Document(object) ==
    [metadata |-> [type |-> "Object"], geometries |-> GeoArr, materials |-> MatArr,
     object |-> object]

\* The documents around a sequence c of children: the four shapes of root (a
\* Scene, another type, no type tag, no "object"), a Scene document without
\* its "geometries" or its "materials" list and, once, a Scene without
\* "children".
Rooted(c) ==
    { Document([type |-> "Scene", children |-> c]),
      Document([type |-> "Group", children |-> c]),
      Document([children |-> c]),
      [metadata |-> [type |-> "Object"], geometries |-> GeoArr,
       materials |-> MatArr, children |-> c],
      [metadata |-> [type |-> "Object"], materials |-> MatArr,
       object |-> [type |-> "Scene", children |-> c]],
      [metadata |-> [type |-> "Object"], geometries |-> GeoArr,
       object |-> [type |-> "Scene", children |-> c]] }
    \cup (IF c = << >> THEN {Document([type |-> "Scene"])} ELSE {})

(***************************************************************************)
(* The program: main() and, inside it, convert_json_to_yaml().             *)
(***************************************************************************)
Start(d) ==
    /\ doc = d
    /\ pc = "start"
    /\ json_dict = Unset
    /\ geometries = Unset
    /\ materials = Unset
    /\ i = 0
    /\ yaml_dict = Unset
    /\ branch = 0
    /\ error = NoError
    /\ yaml_str = << >>
    /\ file = << >>

Init ==
    \E n \in 0..MaxChildren : \E c \in [1..n -> NodePool] : \E d \in Rooted(c) : Start(d)

\* scene.yaml opened (and so created empty) before the conversion has run
LoadOpeningOutput ==
    /\ pc = "start"
    /\ json_dict' = doc
    /\ pc' = "check"
    /\ file' = Append(file, << >>)
    /\ UNCHANGED <<doc, geometries, materials, i, yaml_dict, branch, error, yaml_str>>

\* Lines 129-130: json_dict = load_json_file()
Load ==
    /\ pc = "start"
    /\ json_dict' = doc
    /\ pc' = "check"
    /\ UNCHANGED <<doc, geometries, materials, i, yaml_dict, branch, error, yaml_str, file>>

\* Lines 17-42
CheckRoot ==
    /\ pc = "check"
    /\ IF IsScene(json_dict)
       THEN /\ yaml_dict' = DefaultYaml
            /\ pc' = "index"
            /\ error' = error
       ELSE /\ error' = ValueError("JSON file is not a Three.JS JSON Scene file.")
            /\ pc' = "raised"
            /\ yaml_dict' = yaml_dict
    /\ UNCHANGED <<doc, json_dict, geometries, materials, i, branch, yaml_str, file>>

\* Lines 43-51
BuildIndexes ==
    /\ pc = "index"
    /\ LET hasGeometries == "geometries" \in DOMAIN json_dict
           hasMaterials == "materials" \in DOMAIN json_dict
           hasChildren == "children" \in DOMAIN json_dict.object
       IN
       \* line 43 raises before anything is built, line 47 once the geometry
       \* index is built, line 51 once both are
       /\ geometries' = IF hasGeometries THEN BuildIndex(json_dict.geometries)
                        ELSE geometries
       /\ materials' = IF hasGeometries /\ hasMaterials
                       THEN BuildIndex(json_dict.materials)
                       ELSE materials
       /\ IF hasGeometries /\ hasMaterials /\ hasChildren
          THEN /\ i' = 1
               /\ pc' = "loop"
               /\ error' = error
          ELSE /\ error' = KeyError
               /\ pc' = "raised"
               /\ i' = i
    /\ UNCHANGED <<doc, json_dict, yaml_dict, branch, yaml_str, file>>

objs == json_dict.object.children

\* Lines 52-122: one iteration of the for loop
ProcessNode ==
    /\ pc = "loop"
    /\ i <= Len(objs)
    /\ LET r == Node(objs[i], geometries, materials, yaml_dict.camera) IN
       /\ branch' = IF "branch" \in DOMAIN r THEN r.branch ELSE branch
       /\ IF r.tag = "raise"
          THEN /\ error' = r.error
               /\ pc' = "raised"
               /\ UNCHANGED <<i, yaml_dict>>
          ELSE /\ yaml_dict' = IF r.tag = "camera"
                               THEN [yaml_dict EXCEPT !.camera = r.camera]
                               ELSE [yaml_dict EXCEPT !.world = Emit(@, r.obj)]
               /\ i' = i + 1
               /\ UNCHANGED <<pc, error>>
    /\ UNCHANGED <<doc, json_dict, geometries, materials, yaml_str, file>>

\* Line 124: the loop is over, the text is returned to main (line 132)
Return ==
    /\ pc = "loop"
    /\ i > Len(objs)
    /\ yaml_str' = Dump(yaml_dict)
    /\ pc' = "converted"
    /\ UNCHANGED <<doc, json_dict, geometries, materials, i, yaml_dict, branch, error, file>>

\* Lines 133-135
WriteFile ==
    /\ pc = "converted"
    /\ file' = Append(file, yaml_str)
    /\ pc' = "done"
    /\ UNCHANGED <<doc, json_dict, geometries, materials, i, yaml_dict, branch, error, yaml_str>>

(***************************************************************************)
(* Documents with a single Plane node, over every pair of tabulated        *)
(* matrix entries and an entry outside the domain of acos, with the matrix *)
(* at its 16 entries, cut short or one too long.                           *)
(***************************************************************************)
CosValues ==
    {100000000, 99999999, 99999998, 70710678, 50000000, 17000, 0, -8000, -35000,
     -70710678, -99999999, -100000000}

MatrixLengths == {0, 5, 6, 15, 16, 17}

PlaneNode(m00, m11) ==
    [Mesh("Plane", 1, "geo-plane", "mat-white")
        EXCEPT !.matrix = Matrix(m00, m11, <<0, 0, Unit>>, Pos(1))]

InitPlane ==
    \E m00, m11 \in CosValues \cup {2 * Unit} : \E n \in MatrixLengths :
        Start(Document([type |-> "Scene", children |->
            <<[PlaneNode(m00, m11) EXCEPT !.matrix = Resized(@, n)]>>]))

(***************************************************************************)
(* Documents with a single shape node whose Material Record carries one of *)
(* a range of packed colours: the shortest and longest value of every hex  *)
(* length 1..6, and some in between.                                       *)
(***************************************************************************)
Colours ==
    {16^k : k \in 0..5} \cup {16^k - 1 : k \in 0..6}
        \cup {255, 65280, 16711680, 8421504, 74565, 1193046}

ColourDocument(name, geo, c) ==
    [metadata |-> [type |-> "Object"], geometries |-> GeoArr,
     materials |-> <<[uuid |-> "mat", type |-> "MeshStandardMaterial", color |-> c]>>,
     object |-> [type |-> "Scene", children |-> <<Mesh(name, 1, geo, "mat")>>]]

InitColour ==
    \E c \in Colours :
        \E s \in {<<"Sphere", "geo-sphere">>, <<"Plane", "geo-plane">>, <<"Box", "geo-box">>} :
            Start(ColourDocument(s[1], s[2], c))

Next == Load \/ CheckRoot \/ BuildIndexes \/ ProcessNode \/ Return \/ WriteFile

Spec == Init /\ [][Next]_vars
SpecPlane == InitPlane /\ [][Next]_vars
SpecColour == InitColour /\ [][Next]_vars

(***************************************************************************)
(* Vocabulary of the properties, stated on the input document and on the   *)
(* observable state only.                                                  *)
(***************************************************************************)
RootIsScene ==
    /\ "object" \in DOMAIN doc
    /\ "type" \in DOMAIN doc.object
    /\ doc.object.type = "Scene"

InputChildren ==
    IF "object" \notin DOMAIN doc THEN doc.children
    ELSE IF "children" \in DOMAIN doc.object THEN doc.object.children
    ELSE << >>

IsCamera(o) == o.name = "PerspectiveCamera"
IsShape(o) == o.name \in {"Sphere", "Plane", "Box"}

NonCamera(nodes) == SelectSeq(nodes, LAMBDA o : ~ IsCamera(o))
CameraCount(nodes) == Cardinality({k \in 1..Len(nodes) : IsCamera(nodes[k])})

\* the children the loop has completed
Processed == SubSeq(InputChildren, 1, i - 1)

Translation(o) == <<o.matrix[13], o.matrix[14], o.matrix[15]>>

PlaceOf(w) == IF "center" \in DOMAIN w THEN w.center ELSE w.position

KindAgrees(o, w) ==
    CASE o.name = "Sphere" -> w.objType = "Sphere"
      [] o.name = "PointLight" -> w.objType = "Sphere"
      [] o.name = "Box" -> w.objType = "Box"
      [] o.name = "Plane" -> w.objType \in {"XYRectangle", "XZRectangle", "YZRectangle"}
      [] OTHER -> FALSE

Terminated == pc \in {"done", "raised"}
Accepted == pc \in {"converted", "done"}

\* the world sequence and camera entries of the returned text
OutputWorld == yaml_str[3].value
OutputCameras == {k \in 1..Len(yaml_str) : yaml_str[k].key = "camera"}

(***************************************************************************)
(* C1: for every accepted document the output world holds exactly one      *)
(* object per non-camera child, in the input's relative order: its length  *)
(* is the number of children minus the number of camera nodes, and the     *)
(* j-th object comes from the j-th non-camera child, wherever the cameras  *)
(* stand.                                                                  *)
(***************************************************************************)
C1_WorldFollowsChildren ==
    Accepted =>
        LET src == NonCamera(InputChildren) IN
        /\ yaml_str[3].key = "world"
        /\ Len(OutputWorld) = Len(InputChildren) - CameraCount(InputChildren)
        /\ Len(OutputWorld) = Len(src)
        /\ \A j \in 1..Len(src) :
               /\ PlaceOf(OutputWorld[j]) = Translation(src[j])
               /\ KindAgrees(src[j], OutputWorld[j])

C1_Witness ==
    /\ pc = "done"
    /\ Len(InputChildren) = 3
    /\ IsCamera(InputChildren[2])
    /\ InputChildren[1].name = "Box"
    /\ InputChildren[3].name = "PointLight"
    /\ Len(OutputWorld) = 2

(***************************************************************************)
(* C2: scene.yaml is written only after the whole pass has succeeded: a    *)
(* run that raised has written nothing, and a written file holds the one   *)
(* text of a conversion that went through every child without error.       *)
(***************************************************************************)
C2_AllOrNothing ==
    /\ pc = "raised" => file = << >>
    /\ file # << >> =>
           /\ pc = "done"
           /\ error = NoError
           /\ i = Len(InputChildren) + 1
           /\ file = <<yaml_str>>
           /\ Len(OutputWorld) = Len(NonCamera(InputChildren))
    /\ pc = "done" => file # << >>

C2_Witness ==
    /\ pc = "raised"
    /\ RootIsScene
    /\ i = 3
    /\ Len(yaml_dict.world) = 2
    /\ file = << >>

(***************************************************************************)
(* C5: every PointLight node yields exactly one Sphere of radius 1 at the  *)
(* node's translation with a DiffuseLight material, albedo [1, 1, 1] and   *)
(* ten times the node's intensity, and never raises, whatever its material *)
(* reference (none, unresolved, resolved).                                 *)
(***************************************************************************)
C5_PointLight ==
    i >= 1 =>
        LET src == NonCamera(Processed)
            world == yaml_dict.world
        IN
        /\ Len(world) = Len(src)
        /\ \A j \in 1..Len(src) :
               src[j].name = "PointLight" =>
                   /\ DOMAIN world[j] = {"objType", "center", "radius", "material"}
                   /\ world[j].objType = "Sphere"
                   /\ world[j].radius = 1
                   /\ world[j].center = Translation(src[j])
                   /\ DOMAIN world[j].material = {"matType", "texType", "texture", "intensity"}
                   /\ world[j].material.matType = "DiffuseLight"
                   /\ world[j].material.texType = "SolidColor"
                   /\ world[j].material.texture = [albedo |-> <<255, 255, 255>>]
                   /\ world[j].material.intensity = 10 * src[j].intensity
        /\ (pc = "raised" /\ i <= Len(InputChildren)) => InputChildren[i].name # "PointLight"

C5_Witness ==
    /\ pc = "done"
    /\ Len(InputChildren) = 3
    /\ InputChildren[1].name = "PointLight" /\ "material" \notin DOMAIN InputChildren[1]
    /\ InputChildren[2].name = "PointLight" /\ "material" \in DOMAIN InputChildren[2]
    /\ InputChildren[2].material = "mat-missing"
    /\ InputChildren[3].name = "PointLight" /\ "material" \in DOMAIN InputChildren[3]
    /\ InputChildren[3].material = "mat-red"
    /\ Len(OutputWorld) = 3

(***************************************************************************)
(* C6: the output holds exactly one camera block.  Without a camera node   *)
(* it keeps the defaults; otherwise lookFrom, lookAt, vfov and             *)
(* focusDistance are those of the last camera node processed, and vup,     *)
(* aspectRatio and aperture never change.                                  *)
(***************************************************************************)
C6_LastCameraWins ==
    "camera" \in DOMAIN yaml_dict =>
        LET cam == yaml_dict.camera
            cams == {k \in 1..(i - 1) : IsCamera(InputChildren[k])}
        IN
        /\ cam.vup = <<0, Unit, 0>>
        /\ cam.aspectRatio = "1.0"
        /\ cam.aperture = "0.1"
        /\ cams = {} =>
               /\ cam.lookFrom = <<0, 0, 0>> /\ cam.lookAt = <<0, 0, 0>>
               /\ cam.vfov = 90 /\ cam.focusDistance = 10
        /\ cams # {} =>
               LET last == InputChildren[CHOOSE k \in cams : \A m \in cams : m <= k] IN
               /\ cam.lookFrom = Translation(last)
               /\ cam.lookAt = <<last.matrix[9], last.matrix[10], last.matrix[11]>>
               /\ cam.vfov = last.fov
               /\ cam.focusDistance = last.focus
        /\ Accepted =>
               /\ Cardinality(OutputCameras) = 1
               /\ \A k \in OutputCameras : yaml_str[k].value = cam

C6_Witness ==
    /\ pc = "done"
    /\ Len(InputChildren) = 3
    /\ IsCamera(InputChildren[1])
    /\ IsCamera(InputChildren[3])
    /\ InputChildren[1].fov # InputChildren[3].fov
    /\ yaml_str[1].value.vfov = InputChildren[3].fov

(***************************************************************************)
(* C7: a document whose root is missing, untyped or not a Scene fails with *)
(* the input-validity error before the indexes are built, the output scene *)
(* is started or any child is processed.                                   *)
(***************************************************************************)
C7_RootRejected ==
    ~ RootIsScene =>
        \/ pc \in {"start", "check"} /\ error = NoError
        \/ /\ pc = "raised"
           /\ error = ValueError("JSON file is not a Three.JS JSON Scene file.")
           /\ geometries = Unset
           /\ materials = Unset
           /\ yaml_dict = Unset
           /\ i = 0
           /\ yaml_str = << >>
           /\ file = << >>

C7_Witness ==
    /\ pc = "raised"
    /\ "object" \in DOMAIN doc
    /\ "type" \notin DOMAIN doc.object
    /\ Len(InputChildren) = 3
    /\ InputChildren[1].name = "Sphere"

(***************************************************************************)
(* C8: unresolved references.                                              *)
(***************************************************************************)
GeometryIds ==
    IF "geometries" \in DOMAIN doc
    THEN {doc.geometries[k].uuid : k \in 1..Len(doc.geometries)} ELSE {}
MaterialIds ==
    IF "materials" \in DOMAIN doc
    THEN {doc.materials[k].uuid : k \in 1..Len(doc.materials)} ELSE {}

UnresolvedGeometry(o) == IsShape(o) /\ o.geometry \notin GeometryIds
UnresolvedMaterial(o) == IsShape(o) /\ o.material \notin MaterialIds
Unresolved(o) == UnresolvedGeometry(o) \/ UnresolvedMaterial(o)

HasUnresolved == \E k \in 1..Len(InputChildren) : Unresolved(InputChildren[k])
FirstUnresolved ==
    CHOOSE k \in 1..Len(InputChildren) :
        /\ Unresolved(InputChildren[k])
        /\ \A j \in 1..(k - 1) : ~ Unresolved(InputChildren[j])

\* C8 as claimed: a Scene document in which any shape node references a
\* geometry or material id absent from the index ends with a lookup error
\* and no output.
C8_LookupErrorClaimed ==
    (RootIsScene /\ HasUnresolved /\ Terminated) =>
        /\ pc = "raised"
        /\ error = KeyError
        /\ yaml_str = << >>

(***************************************************************************)
(* C8, amended: such a document never gets past its first node with an     *)
(* unresolved reference: the conversion raises there or earlier, returns   *)
(* nothing, writes nothing and has appended no object for that node.  The  *)
(* error is the lookup error unless another fatal error came first: at an  *)
(* earlier node, before the loop (a document without its "geometries" or   *)
(* "materials" list fails with the same lookup error), or in the matrix    *)
(* reshape or rotation check of that same Plane node when its geometry     *)
(* resolves and only its material does not.                                *)
(***************************************************************************)
C8_UnresolvedAlwaysFails ==
    (RootIsScene /\ HasUnresolved) =>
        /\ pc \notin {"converted", "done"}
        /\ i <= FirstUnresolved
        /\ yaml_str = << >>
        /\ file = << >>
        /\ "world" \in DOMAIN yaml_dict =>
               Len(yaml_dict.world) <= Len(NonCamera(SubSeq(InputChildren, 1, FirstUnresolved - 1)))
        /\ (pc = "raised" /\ i = FirstUnresolved) =>
               \/ error = KeyError
               \/ /\ InputChildren[i].name = "Plane"
                  /\ ~ UnresolvedGeometry(InputChildren[i])
                  /\ error \in {ValueError("Plane has an invalid rotation."),
                                ValueError("math domain error"),
                                ReshapeError(InputChildren[i].matrix)}
        /\ (pc = "raised" /\ i = FirstUnresolved /\ InputChildren[i].name # "Plane") =>
               error = KeyError
        /\ Terminated => pc = "raised"

C8_Witness ==
    /\ pc = "raised"
    /\ error = KeyError
    /\ RootIsScene
    /\ HasUnresolved
    /\ i = 3
    /\ FirstUnresolved = 3
    /\ UnresolvedMaterial(InputChildren[3])
    /\ ~ UnresolvedGeometry(InputChildren[3])
    /\ Len(yaml_dict.world) = 2

(***************************************************************************)
(* Vocabulary of the single-node documents.                                *)
(***************************************************************************)
OnlyNode == InputChildren[1]
OnlyNodeDone == pc = "raised" \/ i > 1
TheColour == doc.materials[1].color
TheAlbedo == yaml_dict.world[1].material.texture.albedo

(***************************************************************************)
(* C3 as claimed: a shape whose material colour is 0xFFFFFF gets albedo    *)
(* [1, 1, 1] and one whose colour is 0x000000 gets albedo [0, 0, 0].       *)
(***************************************************************************)
C3_WhiteAndBlackClaimed ==
    (Terminated /\ TheColour \in {16777215, 0}) =>
        /\ pc = "done"
        /\ TheColour = 16777215 => TheAlbedo = <<255, 255, 255>>
        /\ TheColour = 0 => TheAlbedo = <<0, 0, 0>>

(***************************************************************************)
(* C9 as claimed: every packed 24-bit colour of a referenced material      *)
(* resolves to a Lambertian material whose albedo has exactly three        *)
(* channels, each in [0, 1].                                               *)
(***************************************************************************)
C9_ThreeChannelsClaimed ==
    (Terminated /\ TheColour \in 0..16777215) =>
        /\ pc = "done"
        /\ yaml_dict.world[1].material.matType = "Lambertian"
        /\ Len(TheAlbedo) = 3
        /\ \A k \in 1..Len(TheAlbedo) : TheAlbedo[k] \in 0..255

(***************************************************************************)
(* C4 as claimed: a Plane is accepted only when (roll, pitch) is within    *)
(* 0.01 degree of (0, 0), (90, 0) or (0, 90); any other orientation is     *)
(* rejected with the invalid-rotation error and yields no object.          *)
(***************************************************************************)
Near(a, target) == a - target <= Tol /\ target - a <= Tol

AxisAligned(roll, pitch) ==
    \/ Near(roll, 0) /\ Near(pitch, 0)
    \/ Near(roll, Ninety) /\ Near(pitch, 0)
    \/ Near(roll, 0) /\ Near(pitch, Ninety)

HasAngles(o) ==
    Len(o.matrix) = 16 /\ InAcosDomain(o.matrix[1]) /\ InAcosDomain(o.matrix[6])

C4_OnlyAxisAlignedClaimed ==
    (Terminated /\ OnlyNode.name = "Plane" /\ HasAngles(OnlyNode)) =>
        IF AxisAligned(Roll(OnlyNode), Pitch(OnlyNode))
        THEN pc = "done"
        ELSE /\ pc = "raised"
             /\ error = ValueError("Plane has an invalid rotation.")
             /\ yaml_dict.world = << >>

(***************************************************************************)
(* C10 as claimed: no Plane is ever classified by the fourth branch.       *)
(***************************************************************************)
C10_FourthBranchDeadClaimed == branch # 4

(***************************************************************************)
(* C10, amended: the fourth branch is live.  It is the branch taken        *)
(* exactly for the pairs with 0.01 < roll <= 90.01 and 0.01 < pitch <=     *)
(* 90.01 (roll 45, pitch 45 for one), which it classifies YZRectangle; the *)
(* pairs with roll <= 0.01 or pitch <= 0.01 are decided by the first three *)
(* branches or rejected, and every other pair is rejected.                 *)
(***************************************************************************)
InFourth(a) == Tol < a /\ a <= Ninety + Tol

C10_FourthBranchLive ==
    (OnlyNodeDone /\ OnlyNode.name = "Plane" /\ HasAngles(OnlyNode)) =>
        LET roll == Roll(OnlyNode)
            pitch == Pitch(OnlyNode)
        IN
        /\ branch \in 1..5
        /\ branch = 4 <=> (InFourth(roll) /\ InFourth(pitch))
        /\ branch = 4 => /\ pc # "raised"
                         /\ yaml_dict.world[1].objType = "YZRectangle"
        /\ branch \in 1..3 => (roll <= Tol \/ pitch <= Tol)
        /\ branch = 5 <=> pc = "raised"

C10_Witness ==
    /\ pc = "done"
    /\ branch = 4
    /\ Roll(OnlyNode) = 45000016
    /\ Pitch(OnlyNode) = 45000016
    /\ OutputWorld[1].objType = "YZRectangle"

====
